---- MODULE Spec2Model ----
(***************************************************************************)
(* Calendar reconciliation engine of running-group-app                     *)
(* (core/calendar_sync.py: sync_schedule_to_calendar and the gateway       *)
(* functions it drives), as a state machine over a shared remote calendar. *)
(***************************************************************************)
EXTENDS Integers, Sequences, FiniteSets, TLC

\* ------------------------------------------------------------------ bounds
\* longest schedule handed to one pass
MaxRuns == 2
\* run dates are the days 1..MaxDate; events live on days 0..MaxDate
MaxDate == 2
\* events on the calendar before the first pass
MaxEvents == 1

\* ------------------------------------------------------------ configuration
\* config.calendar.description_marker
description_marker == "Managed by Running Group App"

\* NoRunDates.annual_holidays, as (month, day) pairs
annual_holidays == {<<12, 25>>, <<12, 26>>, <<1, 1>>}

\* NoRunDates.specific_dates (ISO dates): empty by default, here one
\* configured date, 2026-01-07
specific_dates == {<<2026, 1, 7>>}

\* ------------------------------------------------------------------- dates
\* Day d of the model is the calendar date d - 1 days after 2025-12-31: day 0
\* is 30 December, day 1 is 31 December, day 2 is New Year's Day.
DateYear(d) == IF d <= 1 THEN 2025 ELSE 2026
DateMonth(d) == IF d <= 1 THEN 12 ELSE 1
DateDay(d) == IF d <= 1 THEN 30 + d ELSE d - 1
DateIso(d) == <<DateYear(d), DateMonth(d), DateDay(d)>>

RunDates == 1..MaxDate
EventDates == 0..MaxDate

\* NoRunDates.is_no_run
is_no_run(d) ==
    \/ <<DateMonth(d), DateDay(d)>> \in annual_holidays
    \/ DateIso(d) \in specific_dates

\* ------------------------------------------------------------ start times
\* ScheduledRun.start_time is a string; after split(":") it is a tuple of
\* parts, each an integer literal or not ("x").
StartTimes == {<<19, 30>>, <<25, 0>>}

\* int(part) succeeds
IsIntPart(x) == x \in Int

\* lines 86-89: hour, minute = map(int, start_time.split(":")), 19:00 on any
\* exception
ParsedClock(t) ==
    IF Len(t) = 2 /\ IsIntPart(t[1]) /\ IsIntPart(t[2])
    THEN <<t[1], t[2]>>
    ELSE <<19, 0>>

\* line 91: time.replace(hour=, minute=) raises ValueError out of range, and
\* nothing catches it
BuildRaises(run) ==
    LET hm == ParsedClock(run.start_time)
    IN ~(hm[1] \in 0..23 /\ hm[2] \in 0..59)

\* line 91: the clock of start_dt, for a run build_calendar_event does not
\* raise on
start_dt(run) == ParsedClock(run.start_time)

\* build_event_description with a fault: the marker line is left out
build_event_description_unmarked(run) == <<"Meeting">>

\* build_event_description: the marker line first, then the meeting line
build_event_description(run) == <<description_marker, "Meeting">>

\* build_calendar_event (defined when it does not raise)
build_calendar_event(run) ==
    [date |-> run.date,
     timed |-> TRUE,
     description |-> build_event_description(run)]

\* -------------------------------------------------------------- ownership
\* is_managed_event: the marker occurs in the description
is_managed_event(e) ==
    \E k \in 1..Len(e.description) : e.description[k] = description_marker

\* IsActive with a fault: the no-run dates are not looked at
IsActiveUnlessCancelled(run) == ~run.is_cancelled

\* A run that is neither cancelled nor on a no-run date
IsActive(run) == ~(run.is_cancelled \/ is_no_run(run.date))

\* ------------------------------------------------------------------- state
VARIABLES
    runs,       \* the schedule handed to every pass: a sequence of ScheduledRun
    calendar,   \* the remote calendar: the set of events the service holds
    next_id,    \* the id the service gives the next inserted event
    st          \* per pass: the locals of one call of sync_schedule_to_calendar

vars == <<runs, calendar, next_id, st>>

\* The calls of sync_schedule_to_calendar the model follows
Passes == {1, 2}

\* ScheduledRun: date, is_cancelled, start_time (the fields the sync reads)
ScheduledRun ==
    [date : RunDates, is_cancelled : BOOLEAN, start_time : StartTimes]

\* Schedules: at most one run per date (the data model's invariant)
Schedules ==
    {s \in UNION {[1..n -> ScheduledRun] : n \in 0..MaxRuns} :
        \A a, b \in 1..Len(s) : a # b => s[a].date # s[b].date}

\* What the calendar can hold before the first pass: a foreign event, a
\* managed event, a managed event with no readable start.dateTime
EventKinds ==
    <<[description |-> <<"Lunch">>, timed |-> TRUE],
      [description |-> <<"Note", description_marker>>, timed |-> TRUE],
      [description |-> <<description_marker, "Old">>, timed |-> FALSE]>>

RemoteEvent(id, d, k) ==
    [id |-> id, date |-> d, timed |-> EventKinds[k].timed,
     description |-> EventKinds[k].description]

\* Initial calendars, ids 1..n given in (date, kind) order
EventProtos == EventDates \X (1..Len(EventKinds))

ProtoLeq(a, b) == a[1] < b[1] \/ (a[1] = b[1] /\ a[2] <= b[2])

InitCalendars ==
    {{RemoteEvent(k, f[k][1], f[k][2]) : k \in DOMAIN f} :
        f \in {g \in UNION {[1..m -> EventProtos] : m \in 0..MaxEvents} :
                 \A a, b \in DOMAIN g : a < b => ProtoLeq(g[a], g[b])}}

\* SyncResult()
SyncResult == [created |-> 0, updated |-> 0, deleted |-> 0, skipped |-> 0,
               errors |-> <<>>]

\* A call of sync_schedule_to_calendar that has not started. calls (the
\* gateway calls issued so far) and calendar0 (the calendar when the call
\* began) are the record of the pass the properties are stated on.
IdlePass ==
    [pc |-> "idle", dry_run |-> FALSE, start_date |-> 0, end_date |-> 0,
     existing_events |-> <<>>, events_by_date |-> <<>>, i |-> 1, j |-> 1,
     result |-> SyncResult, calls |-> <<>>, calendar0 |-> {}]

Init ==
    /\ runs \in Schedules
    /\ calendar \in InitCalendars
    /\ next_id = MaxEvents + 1
    /\ st = [p \in Passes |-> IdlePass]

\* ------------------------------------------------------ the remote service
\* The events the service returns for the window [lo, hi]
InWindow(cal, lo, hi) == {e \in cal : lo <= e.date /\ e.date <= hi}

\* list_events, orderBy = startTime: every order of S by start date (events
\* of one date come in an order the service chooses)
RECURSIVE StartOrders(_)
StartOrders(S) ==
    IF S = {} THEN {<<>>}
    ELSE UNION {{<<e>> \o t : t \in StartOrders(S \ {e})} :
                  e \in {x \in S : \A y \in S : x.date <= y.date}}

\* Exists with a fault: the service accepts a write to an event it no longer
\* holds
ExistsAlways(cal, id) == TRUE

\* The service holds an event with this id; it refuses (the call raises) an
\* update or a delete of an event it does not hold
Exists(cal, id) == \E e \in cal : e.id = id

\* events().delete
GwDelete(cal, id) == {e \in cal : e.id # id}

\* The event the service stores for a CalendarEvent body
Stored(id, ev) ==
    [id |-> id, date |-> ev.date, timed |-> ev.timed,
     description |-> ev.description]

\* events().update
GwUpdate(cal, id, ev) == {e \in cal : e.id # id} \cup {Stored(id, ev)}

\* events().insert
GwInsert(cal, id, ev) == cal \cup {Stored(id, ev)}

\* -------------------------------------------------------- the date index
\* line 331: managed_events
ManagedEvents(evs) == SelectSeq(evs, is_managed_event)

\* Position of key d in the dict (0: absent)
KeyPos(idx, d) ==
    IF \E k \in 1..Len(idx) : idx[k].date = d
    THEN CHOOSE k \in 1..Len(idx) : idx[k].date = d
    ELSE 0

\* DictSet with a fault: an old key keeps its old value
DictSetFirstWins(idx, e) ==
    IF KeyPos(idx, e.date) = 0 THEN Append(idx, e) ELSE idx

\* events_by_date[event_date] = event: a new key goes last, an old key keeps
\* its place and takes the new value
DictSet(idx, e) ==
    IF KeyPos(idx, e.date) = 0 THEN Append(idx, e)
    ELSE [idx EXCEPT ![KeyPos(idx, e.date)] = e]

\* del events_by_date[d]
DictDel(idx, d) ==
    [n \in 1..(Len(idx) - 1) |->
        IF n < KeyPos(idx, d) THEN idx[n] ELSE idx[n + 1]]

\* lines 334-341: an event whose start.dateTime cannot be read is passed over
RECURSIVE IndexByDate(_, _)
IndexByDate(evs, idx) ==
    IF evs = <<>> THEN idx
    ELSE IndexByDate(Tail(evs),
                     IF Head(evs).timed THEN DictSet(idx, Head(evs)) ELSE idx)

\* Claimed with a fault: the date leaves the index only when the update
\* returned
ClaimedIfUpdated(idx, d, ok) == IF ok THEN DictDel(idx, d) ELSE idx

\* Claimed with a fault: the date stays in the index after the update
ClaimedNever(idx, d, ok) == idx

\* line 377, after the try/except of the update: del events_by_date[run.date]
\* whether the call returned or raised
Claimed(idx, d, ok) == DictDel(idx, d)

\* ----------------------------------------------------------- bookkeeping
\* One gateway call of a pass, as issued: part is "list", "run" or "orphan"
Call(part, op, id, d, ok) ==
    [part |-> part, op |-> op, id |-> id, date |-> d, ok |-> ok]

\* Outcome with a fault: the counter is incremented before the call, so a
\* call that raises is counted too
OutcomeCountsFirst(res, counter, msg, d, ok) ==
    IF ok THEN [res EXCEPT ![counter] = @ + 1]
    ELSE [res EXCEPT ![counter] = @ + 1,
                     !.errors = Append(@, [msg |-> msg, date |-> d])]

\* Outcome with a fault: a new error goes to the front of the list
OutcomeErrorFirst(res, counter, msg, d, ok) ==
    IF ok THEN [res EXCEPT ![counter] = @ + 1]
    ELSE [res EXCEPT !.errors = <<[msg |-> msg, date |-> d]>> \o @]

\* result.<counter> += 1 after the call returned, errors.append(...) when it
\* raised
Outcome(res, counter, msg, d, ok) ==
    IF ok THEN [res EXCEPT ![counter] = @ + 1]
    ELSE [res EXCEPT !.errors = Append(@, [msg |-> msg, date |-> d])]

\* Live with a fault: the writes are issued in a dry run too
LiveAlways(s) == TRUE

\* "if not dry_run"
Live(s) == ~s.dry_run

\* The pass is at a run of the for loop over runs
InRunLoop(s) == s.pc = "loop" /\ s.i <= Len(runs)

\* InOrphanLoop with a fault: the entries of the index are deleted without
\* waiting for the end of the loop over runs
InOrphanLoopEarly(s) == s.pc = "loop" /\ s.j <= Len(s.events_by_date)

\* The pass is at an entry of the loop over events_by_date.items()
InOrphanLoop(s) ==
    s.pc = "loop" /\ s.i > Len(runs) /\ s.j <= Len(s.events_by_date)

\* The pass has returned, or left by an exception
Finished(s) == s.pc \in {"done", "raised"}

SetMin(S) == CHOOSE x \in S : \A y \in S : x <= y
SetMax(S) == CHOOSE x \in S : \A y \in S : x >= y

\* ------------------------------------------------------------------ actions
\* The run the loop is at, and the index entry of its date
Run(s) == runs[s.i]
existing_event(s) == KeyPos(s.events_by_date, Run(s).date)

\* NextRun with a fault: a call that raises ends the pass
NextRunStopsOnError(s, ok) ==
    IF ok THEN [s EXCEPT !.i = @ + 1] ELSE [s EXCEPT !.pc = "done"]

\* After the try/except around one gateway call of the run loop: whether the
\* call returned or raised, the loop goes on to the next run
NextRun(s, ok) == [s EXCEPT !.i = @ + 1]

\* The same for the loop over the remaining index entries
NextOrphan(s, ok) == [s EXCEPT !.j = @ + 1]

\* ReturnEmpty with a fault: the events are listed before the runs are
\* looked at
ReturnEmptyAfterList(s, dr) ==
    [s EXCEPT !.pc = "done", !.dry_run = dr, !.calendar0 = calendar,
              !.calls = Append(@, Call("list", "list", 0, 0, TRUE))]

\* The locals when the pass returns at line 316
ReturnEmpty(s, dr) ==
    [s EXCEPT !.pc = "done", !.dry_run = dr, !.calendar0 = calendar]

\* lines 315-316: no runs, the empty result at once
SyncEmpty(p) ==
    /\ st[p].pc = "idle"
    /\ runs = <<>>
    /\ \E dr \in BOOLEAN : st' = [st EXCEPT ![p] = ReturnEmpty(@, dr)]
    /\ UNCHANGED <<runs, calendar, next_id>>

\* lines 318-321: the window of the pass
SyncBegin(p) ==
    /\ st[p].pc = "idle"
    /\ runs # <<>>
    /\ \E dr \in BOOLEAN :
         LET dates == {runs[k].date : k \in 1..Len(runs)}
         IN st' = [st EXCEPT ![p] =
                     [@ EXCEPT !.pc = "list", !.dry_run = dr,
                               !.calendar0 = calendar,
                               !.start_date = SetMin(dates) - 1,
                               !.end_date = SetMax(dates) + 1]]
    /\ UNCHANGED <<runs, calendar, next_id>>

\* ListFailed with a fault: the error is recorded and the pass goes on with
\* an empty list of existing events
ListFailedGoesOn(s) ==
    [s EXCEPT !.pc = "loop",
              !.result.errors =
                  Append(@, [msg |-> "Failed to list events", date |-> 0]),
              !.calls = Append(@, Call("list", "list", 0, 0, FALSE))]

\* The locals after list_events raised (lines 326-328)
ListFailed(s) ==
    [s EXCEPT !.pc = "done",
              !.result.errors =
                  Append(@, [msg |-> "Failed to list events", date |-> 0]),
              !.calls = Append(@, Call("list", "list", 0, 0, FALSE))]

\* lines 324-328: list_events raises
ListFails(p) ==
    /\ st[p].pc = "list"
    /\ st' = [st EXCEPT ![p] = ListFailed(@)]
    /\ UNCHANGED <<runs, calendar, next_id>>

\* lines 324-341: list_events returns; the managed events are indexed by date
ListSucceeds(p) ==
    /\ st[p].pc = "list"
    /\ \E evs \in StartOrders(InWindow(calendar, st[p].start_date,
                                       st[p].end_date)) :
         st' = [st EXCEPT ![p] =
                  [@ EXCEPT !.pc = "loop",
                            !.existing_events = evs,
                            !.events_by_date =
                                IndexByDate(ManagedEvents(evs), <<>>),
                            !.calls = Append(@, Call("list", "list", 0, 0,
                                                      TRUE))]]
    /\ UNCHANGED <<runs, calendar, next_id>>

\* lines 348-355: cancelled or no-run date with an indexed event, live
CancelledDelete(p) ==
    LET s == st[p]
        ev == s.events_by_date[existing_event(s)]
    IN /\ InRunLoop(s)
       /\ ~IsActive(Run(s))
       /\ existing_event(s) # 0
       /\ Live(s)
       /\ \E ok \in BOOLEAN :
            /\ ok => Exists(calendar, ev.id)
            /\ calendar' = IF ok THEN GwDelete(calendar, ev.id) ELSE calendar
            /\ st' = [st EXCEPT ![p] =
                 [NextRun(s, ok) EXCEPT
                    !.result = Outcome(@, "deleted",
                                       "Failed to delete event for",
                                       Run(s).date, ok),
                    !.calls = Append(@, Call("run", "delete", ev.id,
                                             Run(s).date, ok))]]
       /\ UNCHANGED <<runs, next_id>>

\* lines 356-357: the same in a dry run
CancelledDeleteDry(p) ==
    LET s == st[p]
    IN /\ InRunLoop(s)
       /\ ~IsActive(Run(s))
       /\ existing_event(s) # 0
       /\ ~Live(s)
       /\ st' = [st EXCEPT ![p] =
                   [s EXCEPT !.i = @ + 1, !.result.deleted = @ + 1]]
       /\ UNCHANGED <<runs, calendar, next_id>>

\* lines 358-359: cancelled or no-run date with no indexed event
CancelledSkip(p) ==
    LET s == st[p]
    IN /\ InRunLoop(s)
       /\ ~IsActive(Run(s))
       /\ existing_event(s) = 0
       /\ st' = [st EXCEPT ![p] =
                   [s EXCEPT !.i = @ + 1, !.result.skipped = @ + 1]]
       /\ UNCHANGED <<runs, calendar, next_id>>

\* line 363: build_calendar_event raises and the exception leaves the pass
BuildFails(p) ==
    LET s == st[p]
    IN /\ InRunLoop(s)
       /\ IsActive(Run(s))
       /\ BuildRaises(Run(s))
       /\ st' = [st EXCEPT ![p] = [s EXCEPT !.pc = "raised"]]
       /\ UNCHANGED <<runs, calendar, next_id>>

\* lines 365-372, 377: an indexed event on the date is rewritten, live; the
\* date leaves the index whether the call returned or raised
UpdateExisting(p) ==
    LET s == st[p]
        ev == s.events_by_date[existing_event(s)]
    IN /\ InRunLoop(s)
       /\ IsActive(Run(s))
       /\ ~BuildRaises(Run(s))
       /\ existing_event(s) # 0
       /\ Live(s)
       /\ \E ok \in BOOLEAN :
            /\ ok => Exists(calendar, ev.id)
            /\ calendar' = IF ok
                           THEN GwUpdate(calendar, ev.id,
                                         build_calendar_event(Run(s)))
                           ELSE calendar
            /\ st' = [st EXCEPT ![p] =
                 [NextRun(s, ok) EXCEPT
                    !.result = Outcome(@, "updated",
                                       "Failed to update event for",
                                       Run(s).date, ok),
                    !.events_by_date = Claimed(@, Run(s).date, ok),
                    !.calls = Append(@, Call("run", "update", ev.id,
                                             Run(s).date, ok))]]
       /\ UNCHANGED <<runs, next_id>>

\* lines 373-377: the same in a dry run
UpdateExistingDry(p) ==
    LET s == st[p]
    IN /\ InRunLoop(s)
       /\ IsActive(Run(s))
       /\ ~BuildRaises(Run(s))
       /\ existing_event(s) # 0
       /\ ~Live(s)
       /\ st' = [st EXCEPT ![p] =
                   [s EXCEPT !.i = @ + 1, !.result.updated = @ + 1,
                             !.events_by_date = DictDel(@, Run(s).date)]]
       /\ UNCHANGED <<runs, calendar, next_id>>

\* lines 378-385: no indexed event on the date, an event is created, live
CreateNew(p) ==
    LET s == st[p]
    IN /\ InRunLoop(s)
       /\ IsActive(Run(s))
       /\ ~BuildRaises(Run(s))
       /\ existing_event(s) = 0
       /\ Live(s)
       /\ \E ok \in BOOLEAN :
            /\ calendar' = IF ok
                           THEN GwInsert(calendar, next_id,
                                         build_calendar_event(Run(s)))
                           ELSE calendar
            /\ next_id' = IF ok THEN next_id + 1 ELSE next_id
            /\ st' = [st EXCEPT ![p] =
                 [NextRun(s, ok) EXCEPT
                    !.result = Outcome(@, "created",
                                       "Failed to create event for",
                                       Run(s).date, ok),
                    !.calls = Append(@, Call("run", "create",
                                             IF ok THEN next_id ELSE 0,
                                             Run(s).date, ok))]]
       /\ UNCHANGED runs

\* lines 386-387: the same in a dry run
CreateNewDry(p) ==
    LET s == st[p]
    IN /\ InRunLoop(s)
       /\ IsActive(Run(s))
       /\ ~BuildRaises(Run(s))
       /\ existing_event(s) = 0
       /\ ~Live(s)
       /\ st' = [st EXCEPT ![p] =
                   [s EXCEPT !.i = @ + 1, !.result.created = @ + 1]]
       /\ UNCHANGED <<runs, calendar, next_id>>

\* lines 390-396: an entry left in the index is deleted, live
OrphanDelete(p) ==
    LET s == st[p]
        ev == s.events_by_date[s.j]
    IN /\ InOrphanLoop(s)
       /\ Live(s)
       /\ \E ok \in BOOLEAN :
            /\ ok => Exists(calendar, ev.id)
            /\ calendar' = IF ok THEN GwDelete(calendar, ev.id) ELSE calendar
            /\ st' = [st EXCEPT ![p] =
                 [NextOrphan(s, ok) EXCEPT
                    !.result = Outcome(@, "deleted",
                                       "Failed to delete orphan event for",
                                       ev.date, ok),
                    !.calls = Append(@, Call("orphan", "delete", ev.id,
                                             ev.date, ok))]]
       /\ UNCHANGED <<runs, next_id>>

\* lines 397-398: the same in a dry run
OrphanDeleteDry(p) ==
    LET s == st[p]
    IN /\ InOrphanLoop(s)
       /\ ~Live(s)
       /\ st' = [st EXCEPT ![p] =
                   [s EXCEPT !.j = @ + 1, !.result.deleted = @ + 1]]
       /\ UNCHANGED <<runs, calendar, next_id>>

\* line 400: return result
Return(p) ==
    LET s == st[p]
    IN /\ s.pc = "loop"
       /\ s.i > Len(runs)
       /\ s.j > Len(s.events_by_date)
       /\ st' = [st EXCEPT ![p] = [s EXCEPT !.pc = "done"]]
       /\ UNCHANGED <<runs, calendar, next_id>>

\* One step of the call p of sync_schedule_to_calendar
Step(p) ==
    \/ SyncEmpty(p)
    \/ SyncBegin(p)
    \/ ListFails(p)
    \/ ListSucceeds(p)
    \/ CancelledDelete(p)
    \/ CancelledDeleteDry(p)
    \/ CancelledSkip(p)
    \/ BuildFails(p)
    \/ UpdateExisting(p)
    \/ UpdateExistingDry(p)
    \/ CreateNew(p)
    \/ CreateNewDry(p)
    \/ OrphanDelete(p)
    \/ OrphanDeleteDry(p)
    \/ Return(p)

\* One pass against the calendar
Next == Step(1)

Spec == Init /\ [][Next]_vars

\* One pass that keeps running: the interpreter takes the next step of the
\* call, and every gateway call returns or raises
SpecFair == Init /\ [][Next]_vars /\ WF_vars(Next)

\* Two passes in succession over the same schedule: the second begins when
\* the first has returned or raised
NextSeq ==
    \/ Step(1)
    \/ (Finished(st[1]) /\ Step(2))

SpecSeq == Init /\ [][NextSeq]_vars

\* Two passes over the same schedule against the same calendar, their
\* gateway calls interleaved in any order
NextConc == Step(1) \/ Step(2)

SpecConc == Init /\ [][NextConc]_vars

\* Calendars that hold several events on one date: MaxEvents + 1 events
\* of any kinds on a date, ids in kind order
DupCalendars ==
    {{RemoteEvent(k, d, f[k]) : k \in 1..(MaxEvents + 1)} :
        d \in EventDates,
        f \in {g \in [1..(MaxEvents + 1) -> 1..Len(EventKinds)] :
                 \A a, b \in 1..(MaxEvents + 1) : a < b => g[a] <= g[b]}}

InitDup ==
    /\ runs \in Schedules
    /\ calendar \in InitCalendars \cup DupCalendars
    /\ next_id = MaxEvents + 2
    /\ st = [p \in Passes |-> IdlePass]

\* One pass against a calendar of InitCalendars or DupCalendars
SpecDup == InitDup /\ [][Next]_vars

\* Two passes in succession against such a calendar
SpecDupSeq == InitDup /\ [][NextSeq]_vars

\* Schedules that also reach a week past the dates of the calendar's events:
\* runs on the days d + 7 for the event days d
WeekDates == RunDates \cup {d + 7 : d \in EventDates}

WeekSchedules ==
    {s \in UNION {[1..n -> [date : WeekDates, is_cancelled : BOOLEAN,
                            start_time : StartTimes]] : n \in 0..MaxRuns} :
        \A a, b \in 1..Len(s) : a # b => s[a].date # s[b].date}

InitWeek ==
    /\ runs \in WeekSchedules
    /\ calendar \in InitCalendars
    /\ next_id = MaxEvents + 1
    /\ st = [p \in Passes |-> IdlePass]

\* One pass over a schedule of WeekSchedules
SpecWeek == InitWeek /\ [][Next]_vars

\* ------------------------------------------------------ reading a pass
\* The list call of the pass returned
ListOk(s) == Len(s.calls) >= 1 /\ s.calls[1].ok

\* The list call of the pass raised
ListRaised(s) == Len(s.calls) >= 1 /\ ~s.calls[1].ok

\* The index as it was built from the list result
Index0(s) == IndexByDate(ManagedEvents(s.existing_events), <<>>)

\* The calls of a pass to op (their positions in the record of the pass)
CallsOf(s, op) == {k \in 1..Len(s.calls) : s.calls[k].op = op}

\* The create, update and delete calls of a pass
Writes(s) == CallsOf(s, "create") \cup CallsOf(s, "update")
                 \cup CallsOf(s, "delete")

\* The schedule has a run on date d
HasRun(d) == \E k \in 1..Len(runs) : runs[k].date = d

\* Every call of the pass returned
NoFailure(s) == \A k \in 1..Len(s.calls) : s.calls[k].ok

\* Every call that raised was a write to an event that an earlier delete of
\* the same pass had already removed: the service refused nothing it holds
NoRefusal(s) ==
    \A k \in 1..Len(s.calls) :
        ~s.calls[k].ok =>
            \E m \in 1..(k - 1) :
                /\ s.calls[m].ok
                /\ s.calls[m].op = "delete"
                /\ s.calls[m].id = s.calls[k].id

\* ------------------------------------------------------------------ claims

\* The listed events of date d are foreign, and there is one
OnlyForeign(s, d) ==
    /\ \E m \in 1..Len(s.existing_events) : s.existing_events[m].date = d
    /\ \A m \in 1..Len(s.existing_events) :
         s.existing_events[m].date = d
             => ~is_managed_event(s.existing_events[m])

\* C1, first half: no update or delete call of any pass (live or dry run,
\* whatever calls fail) carries the id of a listed event whose description
\* lacks the ownership marker.
C1_ForeignNeverWritten ==
    \A p \in Passes :
        \A k \in CallsOf(st[p], "update") \cup CallsOf(st[p], "delete") :
            \A m \in 1..Len(st[p].existing_events) :
                st[p].existing_events[m].id = st[p].calls[k].id
                    => is_managed_event(st[p].existing_events[m])

\* C1 (ownership isolation): no update or delete call is issued with the id
\* of a listed foreign event, and when a live pass whose list call returned
\* has ended, a create call was issued for the date of every active run
\* whose date holds only foreign events.
C1_OwnershipIsolation ==
    /\ C1_ForeignNeverWritten
    /\ \A p \in Passes :
         (Finished(st[p]) /\ Live(st[p]) /\ ListOk(st[p])) =>
             \A k \in 1..Len(runs) :
                 (IsActive(runs[k]) /\ OnlyForeign(st[p], runs[k].date)) =>
                     \E c \in CallsOf(st[p], "create") :
                         st[p].calls[c].date = runs[k].date

\* The calendar holds at most one managed event with a readable start on
\* each date
OnePerDate(cal) ==
    \A a, b \in cal :
        (is_managed_event(a) /\ is_managed_event(b) /\ a.timed /\ b.timed
            /\ a.date = b.date) => a = b

\* The active runs of the schedule
ActiveRuns == {k \in 1..Len(runs) : IsActive(runs[k])}

\* C2 (idempotence): when a live pass in which no gateway call failed is
\* followed by a second pass over the same schedule, the second pass (in
\* which no gateway call fails either) reports created = 0, deleted = 0 and
\* updated = the number of active runs. Stated here for calendars that held
\* at most one managed event per date before the first pass.
C2_Idempotence ==
    (/\ Finished(st[1]) /\ Live(st[1]) /\ NoFailure(st[1])
     /\ OnePerDate(st[1].calendar0)
     /\ Finished(st[2]) /\ NoFailure(st[2]))
        => /\ st[2].pc = "done"
           /\ st[2].result.created = 0
           /\ st[2].result.deleted = 0
           /\ st[2].result.updated = Cardinality(ActiveRuns)

\* The delete calls of a pass for the event id
DeletesOf(s, id) == {c \in CallsOf(s, "delete") : s.calls[c].id = id}

\* The entries of the index built from the list result whose date has no run
Orphans0(s) == {k \in 1..Len(Index0(s)) : ~HasRun(Index0(s)[k].date)}

\* C3 (orphan cleanup): when a live pass in which no gateway call failed has
\* ended, every indexed managed event whose date has no run got exactly one
\* delete call, and deleted counts one for each.
C3_OrphanCleanup ==
    \A p \in Passes :
        (Finished(st[p]) /\ Live(st[p]) /\ ListOk(st[p]) /\ NoFailure(st[p]))
            => /\ \A k \in Orphans0(st[p]) :
                    Cardinality(DeletesOf(st[p], Index0(st[p])[k].id)) = 1
               /\ st[p].result.deleted = Cardinality(Orphans0(st[p]))

\* C4 (cancellation precedence): when a pass whose list call returned has
\* ended, for every run with is_cancelled whose date has an indexed managed
\* event, a live pass issued a delete call for that event, and no update or
\* create call was issued for the date.
C4_CancellationPrecedence ==
    \A p \in Passes :
        (Finished(st[p]) /\ ListOk(st[p])) =>
            \A k \in 1..Len(runs) :
                (runs[k].is_cancelled
                    /\ KeyPos(Index0(st[p]), runs[k].date) # 0) =>
                    /\ Live(st[p]) =>
                         DeletesOf(st[p],
                             Index0(st[p])[KeyPos(Index0(st[p]),
                                                   runs[k].date)].id) # {}
                    /\ \A c \in CallsOf(st[p], "update")
                                    \cup CallsOf(st[p], "create") :
                           st[p].calls[c].date # runs[k].date

\* The index entries no active run claims: the events a pass is to delete
ToDelete0(s) ==
    {n \in 1..Len(Index0(s)) :
        \A k \in ActiveRuns : runs[k].date # Index0(s)[n].date}

\* C5 (cancellation is terminal): when a pass has returned, the indexed
\* managed event on the date of a cancelled or no-run run got exactly one
\* delete call (live), and a dry run counted every event it would delete
\* exactly once in deleted.
C5_CancellationTerminal ==
    \A p \in Passes :
        (st[p].pc = "done" /\ ListOk(st[p])) =>
            \A k \in 1..Len(runs) :
                (~IsActive(runs[k])
                    /\ KeyPos(Index0(st[p]), runs[k].date) # 0) =>
                    IF Live(st[p])
                    THEN Cardinality(DeletesOf(st[p],
                             Index0(st[p])[KeyPos(Index0(st[p]),
                                                   runs[k].date)].id)) = 1
                    ELSE st[p].result.deleted
                             = Cardinality(ToDelete0(st[p]))

\* created, updated, deleted and skipped of a result
Counters(res) == <<res.created, res.updated, res.deleted, res.skipped>>

\* C6 (dry-run fidelity): a dry run and a live pass started from the same
\* calendar, the live one against a service that applies each write and
\* refuses nothing it holds, return the same four counters.
C6_DryRunFidelity ==
    (/\ st[1].pc = "done" /\ st[1].dry_run /\ ListOk(st[1])
     /\ st[2].pc = "done" /\ Live(st[2]) /\ NoRefusal(st[2]))
        => Counters(st[1].result) = Counters(st[2].result)

\* C7 (a dry run issues no remote write): in a dry run the only gateway call
\* is the one list call; no create, update or delete is called, and the
\* calendar holds the events it held when the pass began.
C7_DryRunNoWrite ==
    \A p \in Passes :
        st[p].dry_run =>
            /\ Writes(st[p]) = {}
            /\ Cardinality(CallsOf(st[p], "list")) <= 1
            /\ calendar = st[p].calendar0
            /\ next_id = MaxEvents + 1

\* A dry run has returned after counting a create and a delete it did not
\* issue
C7_Witness ==
    \E p \in Passes :
        /\ st[p].dry_run /\ st[p].pc = "done"
        /\ st[p].result.created > 0 /\ st[p].result.deleted > 0

\* C8 (fatal list failure): once the list call of a pass over a non-empty
\* schedule has failed, the pass has returned, its four counters are 0, its
\* errors hold exactly one entry, and it issues no create, update or delete;
\* live or dry run.
C8_FatalListFailure ==
    \A p \in Passes :
        ListRaised(st[p]) =>
            /\ st[p].pc = "done"
            /\ Counters(st[p].result) = <<0, 0, 0, 0>>
            /\ Len(st[p].result.errors) = 1
            /\ Writes(st[p]) = {}
            /\ calendar = st[p].calendar0

\* The list call of a live pass failed with an active run to create and a
\* managed event to delete
C8_Witness ==
    \E p \in Passes :
        /\ ListRaised(st[p]) /\ Live(st[p])
        /\ ActiveRuns # {}
        /\ \E e \in calendar : is_managed_event(e) /\ e.timed /\ ~HasRun(e.date)
                /\ e.date >= st[p].start_date /\ e.date <= st[p].end_date

\* A gateway call as decided, without its outcome
Decision(part, op, id, d) == [part |-> part, op |-> op, id |-> id, date |-> d]

\* The write calls the run loop decides from run k on with the index idx,
\* every call taken to return: the decisions so far (ops), the index left,
\* and whether build_calendar_event raised
RECURSIVE PlanRuns(_, _, _)
PlanRuns(k, idx, ops) ==
    IF k > Len(runs) THEN [ops |-> ops, idx |-> idx, raised |-> FALSE]
    ELSE IF ~IsActive(runs[k])
    THEN PlanRuns(k + 1, idx,
                  IF KeyPos(idx, runs[k].date) = 0 THEN ops
                  ELSE Append(ops,
                           Decision("run", "delete",
                                    idx[KeyPos(idx, runs[k].date)].id,
                                    runs[k].date)))
    ELSE IF BuildRaises(runs[k])
    THEN [ops |-> ops, idx |-> idx, raised |-> TRUE]
    ELSE IF KeyPos(idx, runs[k].date) = 0
    THEN PlanRuns(k + 1, idx,
                  Append(ops, Decision("run", "create", 0, runs[k].date)))
    ELSE PlanRuns(k + 1, DictDel(idx, runs[k].date),
                  Append(ops,
                         Decision("run", "update",
                                  idx[KeyPos(idx, runs[k].date)].id,
                                  runs[k].date)))

\* The write calls of a whole pass had every call returned: the run loop,
\* then a delete for every entry left in the index
Plan(s) ==
    LET r == PlanRuns(1, Index0(s), <<>>)
    IN IF r.raised THEN r.ops
       ELSE r.ops \o [n \in 1..Len(r.idx) |->
                         Decision("orphan", "delete", r.idx[n].id,
                                  r.idx[n].date)]

\* The write calls the pass has issued, without their outcomes
Issued(s) ==
    [n \in 1..(Len(s.calls) - 1) |->
        Decision(s.calls[n + 1].part, s.calls[n + 1].op,
                 IF s.calls[n + 1].op = "create" THEN 0
                 ELSE s.calls[n + 1].id,
                 s.calls[n + 1].date)]

\* C9 (per-item error isolation): whichever create, update or delete calls
\* of a live pass fail, the pass issues the calls it would issue had every
\* call succeeded, in the same order: after a failure every later run gets
\* the same decision and the orphan deletes are still issued.
C9_ErrorIsolation ==
    \A p \in Passes :
        (Live(st[p]) /\ ListOk(st[p])) =>
            /\ Len(Issued(st[p])) <= Len(Plan(st[p]))
            /\ Issued(st[p]) = SubSeq(Plan(st[p]), 1, Len(Issued(st[p])))
            /\ Finished(st[p]) => Issued(st[p]) = Plan(st[p])

\* A live pass has returned after a write of the run loop failed, a later
\* run got its call and an orphan was deleted
C9_Witness ==
    \E p \in Passes :
        /\ st[p].pc = "done"
        /\ \E a, b, c \in Writes(st[p]) :
             /\ a < b /\ b < c
             /\ ~st[p].calls[a].ok
             /\ st[p].calls[b].part = "run"
             /\ st[p].calls[c].part = "orphan" /\ st[p].calls[c].ok

\* The calls of the pass to op that returned
Succeeded(s, op) == {c \in CallsOf(s, op) : s.calls[c].ok}

\* C10 (counters count successes only): throughout a live pass created,
\* updated and deleted equal the numbers of create, update and delete calls
\* that returned; a call that failed adds to no counter.
C10_CountersCountSuccesses ==
    \A p \in Passes :
        Live(st[p]) =>
            /\ st[p].result.created = Cardinality(Succeeded(st[p], "create"))
            /\ st[p].result.updated = Cardinality(Succeeded(st[p], "update"))
            /\ st[p].result.deleted = Cardinality(Succeeded(st[p], "delete"))

\* A live pass has returned with a failed and a successful write
C10_Witness ==
    \E p \in Passes :
        /\ st[p].pc = "done" /\ Live(st[p])
        /\ \E a, b \in Writes(st[p]) :
             ~st[p].calls[a].ok /\ st[p].calls[b].ok
        /\ Len(st[p].result.errors) >= 1

\* C11 (the caller always receives a result): no call of
\* sync_schedule_to_calendar is left by an exception; whatever the runs, the
\* listed events and the gateway failures, the pass ends by returning its
\* SyncResult.
C11_AlwaysReturns ==
    \A p \in Passes : st[p].pc # "raised"

\* C12 (empty schedule): a pass over an empty runs list has returned with
\* created = updated = deleted = skipped = 0 and no errors, has issued no
\* gateway call (no list, no write), and the calendar holds what it held.
C12_EmptySchedule ==
    \A p \in Passes :
        (runs = <<>> /\ st[p].pc # "idle") =>
            /\ st[p].pc = "done"
            /\ Counters(st[p].result) = <<0, 0, 0, 0>>
            /\ st[p].result.errors = <<>>
            /\ st[p].calls = <<>>
            /\ calendar = st[p].calendar0

\* A live pass over an empty schedule has returned and a managed event with
\* a readable start is still on the calendar
C12_Witness ==
    \E p \in Passes :
        /\ runs = <<>> /\ st[p].pc = "done" /\ Live(st[p])
        /\ \E e \in calendar : is_managed_event(e) /\ e.timed

\* The managed events among a set of events
ManagedOf(cal) == {e \in cal : is_managed_event(e)}

\* C13 (orphan a week before the only run): when the calendar held exactly
\* one managed event, on date d, and the schedule is one active run on
\* d + 7, a pass in which no gateway call failed returns created = 1,
\* updated = 0, deleted = 1, skipped = 0 (the service lists the events of
\* the requested window only).
C13_OrphanWeekBefore ==
    \A p \in Passes : \A d \in EventDates :
        (/\ st[p].pc = "done" /\ ListOk(st[p]) /\ NoFailure(st[p])
         /\ Len(runs) = 1 /\ runs[1].date = d + 7 /\ IsActive(runs[1])
         /\ Cardinality(ManagedOf(st[p].calendar0)) = 1
         /\ \A e \in ManagedOf(st[p].calendar0) : e.date = d /\ e.timed)
            => Counters(st[p].result) = <<1, 0, 1, 0>>

\* C14 (empty calendar): when the list call returned no managed event and
\* no gateway call failed, a pass that has ended has returned created = the
\* number of active runs, skipped = the number of cancelled or no-run runs,
\* updated = 0 and deleted = 0.
C14_EmptyCalendar ==
    \A p \in Passes :
        (/\ Finished(st[p]) /\ ListOk(st[p]) /\ NoFailure(st[p])
         /\ ManagedEvents(st[p].existing_events) = <<>>)
            => /\ st[p].pc = "done"
               /\ Counters(st[p].result)
                    = <<Cardinality(ActiveRuns), 0, 0,
                        Len(runs) - Cardinality(ActiveRuns)>>

\* The dates of the window of a pass
Window(s) == s.start_date..s.end_date

\* The schedule has an active run on date d
HasActiveRun(d) == \E k \in ActiveRuns : runs[k].date = d

\* The foreign events among a set of events
ForeignOf(cal) == {e \in cal : ~is_managed_event(e)}

\* C15 (convergence to the schedule): when a live pass in which no gateway
\* call failed has ended, over a calendar that held at most one managed
\* event per date, every date of the window holds a managed event exactly
\* when the schedule has an active run on it, and the foreign events are
\* the ones the calendar held before.
C15_Convergence ==
    \A p \in Passes :
        (/\ Finished(st[p]) /\ Live(st[p]) /\ ListOk(st[p])
         /\ NoFailure(st[p])
         /\ \A a, b \in ManagedOf(st[p].calendar0) : a.date = b.date => a = b)
            => /\ \A d \in Window(st[p]) :
                    (\E e \in ManagedOf(calendar) : e.date = d)
                        <=> HasActiveRun(d)
               /\ ForeignOf(calendar) = ForeignOf(st[p].calendar0)

\* The last call a pass has issued
LastCall(s) == s.calls[Len(s.calls)]

\* The step of pass p from locals s to locals t is the handling of a
\* cancelled run on date d: a delete of the event indexed on d (counted when
\* it returned, or uncalled and counted in a dry run), else skipped + 1;
\* created and updated stay, no create or update is called, and the loop
\* goes on to the next run
HandledAsCancelled(s, t, d) ==
    LET pos == KeyPos(s.events_by_date, d)
    IN /\ t.pc = "loop" /\ t.i = s.i + 1
       /\ t.result.created = s.result.created
       /\ t.result.updated = s.result.updated
       /\ IF pos = 0
          THEN /\ t.calls = s.calls
               /\ t.result = [s.result EXCEPT !.skipped = @ + 1]
          ELSE IF s.dry_run
          THEN /\ t.calls = s.calls
               /\ t.result = [s.result EXCEPT !.deleted = @ + 1]
          ELSE /\ Len(t.calls) = Len(s.calls) + 1
               /\ SubSeq(t.calls, 1, Len(s.calls)) = s.calls
               /\ LastCall(t).op = "delete"
               /\ LastCall(t).id = s.events_by_date[pos].id
               /\ t.result.skipped = s.result.skipped
               /\ t.result.deleted
                    = s.result.deleted + (IF LastCall(t).ok THEN 1 ELSE 0)
               /\ Len(t.result.errors)
                    = Len(s.result.errors) + (IF LastCall(t).ok THEN 0 ELSE 1)

\* C16 (no-run dates are cancelled runs): every step of the run loop at a
\* run that is cancelled, or is not cancelled and falls on a no-run date
\* (annual holiday or specific date), is the same handling: delete when a
\* managed event is indexed on the date, else skipped; never a create or an
\* update.
C16_NoRunAsCancelled ==
    [][\A p \in Passes :
          (/\ InRunLoop(st[p])
           /\ Run(st[p]).is_cancelled \/ is_no_run(Run(st[p]).date)
           /\ st'[p] # st[p])
              => HandledAsCancelled(st[p], st'[p], Run(st[p]).date)]_vars

\* A live pass has deleted the event of an uncancelled run on an annual
\* holiday and skipped an uncancelled run on a specific no-run date
C16_Witness ==
    \E p \in Passes : \E a, b \in 1..Len(runs) :
        /\ st[p].pc = "done" /\ Live(st[p])
        /\ ~runs[a].is_cancelled /\ ~runs[b].is_cancelled
        /\ <<DateMonth(runs[a].date), DateDay(runs[a].date)>>
              \in annual_holidays
        /\ DateIso(runs[b].date) \in specific_dates
        /\ \E c \in Succeeded(st[p], "delete") :
              st[p].calls[c].date = runs[a].date
        /\ st[p].result.skipped = 1

\* The place in the schedule of the run on date d
RunPos(d) == CHOOSE k \in 1..Len(runs) : runs[k].date = d

\* C17 (call ordering within one pass): a pass over a non-empty schedule
\* issues exactly one list call and it is its first call, before every
\* write; the calls of the run loop come in the order of the runs in the
\* schedule; every orphan delete comes after the last call of the run loop.
C17_CallOrdering ==
    \A p \in Passes :
        /\ (runs # <<>> /\ st[p].pc \notin {"idle", "list"})
              => Cardinality(CallsOf(st[p], "list")) = 1
        /\ \A k \in 1..Len(st[p].calls) :
              (st[p].calls[k].op = "list") <=> (k = 1)
        /\ \A a, b \in Writes(st[p]) :
              a < b =>
                /\ st[p].calls[a].part = "orphan"
                      => st[p].calls[b].part = "orphan"
                /\ (st[p].calls[a].part = "run"
                        /\ st[p].calls[b].part = "run")
                      => RunPos(st[p].calls[a].date)
                            < RunPos(st[p].calls[b].date)

\* A pass over a schedule not in date order has returned after two calls of
\* the run loop and an orphan delete
C17_Witness ==
    \E p \in Passes :
        /\ st[p].pc = "done"
        /\ Len(runs) = 2 /\ runs[1].date > runs[2].date
        /\ \E a, b, c \in Writes(st[p]) :
              /\ a < b /\ b < c
              /\ st[p].calls[a].part = "run"
              /\ st[p].calls[b].part = "run"
              /\ st[p].calls[c].part = "orphan"

\* The event the index built from the list result holds for date d
Indexed0(s, d) == Index0(s)[KeyPos(Index0(s), d)]

\* C18 (unconditional update and claim): when a pass whose list call
\* returned has ended, for every active run whose date had an indexed
\* managed event, a live pass issued exactly one update call with that
\* event's id, no create was issued for the date, the date is no longer in
\* the index, and no orphan delete was issued for the event.
C18_UpdateAndClaim ==
    \A p \in Passes :
        (Finished(st[p]) /\ ListOk(st[p])) =>
            \A k \in ActiveRuns :
                KeyPos(Index0(st[p]), runs[k].date) # 0 =>
                    /\ Live(st[p]) =>
                          Cardinality({c \in CallsOf(st[p], "update") :
                              st[p].calls[c].id
                                  = Indexed0(st[p], runs[k].date).id}) = 1
                    /\ \A c \in CallsOf(st[p], "create") :
                          st[p].calls[c].date # runs[k].date
                    /\ KeyPos(st[p].events_by_date, runs[k].date) = 0
                    /\ \A c \in DeletesOf(st[p],
                                    Indexed0(st[p], runs[k].date).id) :
                          st[p].calls[c].part # "orphan"

\* The calls of a pass that raised
Failed(s) == {c \in 1..Len(s.calls) : ~s.calls[c].ok}

\* The delete calls of a pass for the event id that returned
DeletedBy(s, id) == {c \in Succeeded(s, "delete") : s.calls[c].id = id}

\* The ids an event has been given
EventIds == 1..(next_id - 1)

\* C19 (concurrent passes race): with two interleaved passes, each create
\* of a pass is for a date its own list result showed free of indexed
\* managed events (so both passes can create for one date), an event is
\* deleted by at most one successful delete call of the two passes (the
\* other pass's delete of it fails), and every failed call of a pass is one
\* entry of its errors.
C19_ConcurrentRace ==
    /\ \A p \in Passes :
          /\ \A c \in CallsOf(st[p], "create") :
                KeyPos(Index0(st[p]), st[p].calls[c].date) = 0
          /\ Len(st[p].result.errors) = Cardinality(Failed(st[p]))
    /\ \A id \in EventIds :
          Cardinality(DeletedBy(st[1], id))
              + Cardinality(DeletedBy(st[2], id)) <= 1

\* Two live passes have returned: each created an event for the same date
\* and both events are on the calendar; one deleted an orphan and the
\* other's delete of the same orphan failed and is in its errors
C19_Witness ==
    /\ \A p \in Passes : st[p].pc = "done" /\ Live(st[p])
    /\ \E a \in Succeeded(st[1], "create") :
         \E b \in Succeeded(st[2], "create") :
            /\ st[1].calls[a].date = st[2].calls[b].date
            /\ \E e, f \in ManagedOf(calendar) :
                  /\ e.id = st[1].calls[a].id /\ f.id = st[2].calls[b].id
                  /\ e.date = f.date /\ e.id # f.id
    /\ \E p, q \in Passes :
         \E a \in Succeeded(st[p], "delete") : \E b \in Failed(st[q]) :
            /\ p # q
            /\ st[p].calls[a].part = "orphan"
            /\ st[q].calls[b].part = "orphan"
            /\ st[p].calls[a].id = st[q].calls[b].id
            /\ Len(st[q].result.errors) = 1
            /\ st[q].result.deleted = 0

\* The listed managed events whose start.dateTime cannot be read
Unreadable(s) ==
    {m \in 1..Len(s.existing_events) :
        /\ is_managed_event(s.existing_events[m])
        /\ ~s.existing_events[m].timed}

\* C20, the drop itself: a listed managed event with no readable start is
\* not in the index, adds no entry to errors, is the target of no update or
\* delete call, and is not counted in deleted.
C20_DroppedUntouched ==
    \A p \in Passes :
        ListOk(st[p]) =>
            /\ \A n \in 1..Len(Index0(st[p])) : Index0(st[p])[n].timed
            /\ Len(st[p].result.errors) = Cardinality(Failed(st[p]))
            /\ \A m \in Unreadable(st[p]) :
                  \A c \in CallsOf(st[p], "update")
                              \cup CallsOf(st[p], "delete") :
                      st[p].calls[c].id # st[p].existing_events[m].id
            /\ Index0(st[p]) = <<>> => st[p].result.deleted = 0

\* C20 (silent drop): a managed event whose start cannot be read is left
\* out of the index without an error entry, gets no update or delete and is
\* not counted as an orphan; and when a live pass has ended, a create call
\* was issued for every active run whose date holds such an event and no
\* indexed one.
C20_SilentDrop ==
    /\ C20_DroppedUntouched
    /\ \A p \in Passes :
          (Finished(st[p]) /\ Live(st[p]) /\ ListOk(st[p])) =>
              \A k \in ActiveRuns :
                  (/\ \E m \in Unreadable(st[p]) :
                         st[p].existing_events[m].date = runs[k].date
                   /\ KeyPos(Index0(st[p]), runs[k].date) = 0)
                      => \E c \in CallsOf(st[p], "create") :
                             st[p].calls[c].date = runs[k].date

\* The places in the list result of the managed events dated d whose start
\* can be read
ListedOn(s, d) ==
    {m \in 1..Len(s.existing_events) :
        /\ is_managed_event(s.existing_events[m])
        /\ s.existing_events[m].timed
        /\ s.existing_events[m].date = d}

\* C21 (last-write-wins index): of the listed managed events of one date
\* the index holds the one latest in list order and no other; every update
\* or delete call of the pass has the id of an indexed event, so none is
\* issued for the earlier events of the date.
C21_LastWriteWins ==
    \A p \in Passes :
        ListOk(st[p]) =>
            /\ \A d \in EventDates :
                  ListedOn(st[p], d) # {} =>
                      /\ KeyPos(Index0(st[p]), d) # 0
                      /\ Indexed0(st[p], d)
                            = st[p].existing_events[SetMax(ListedOn(st[p], d))]
            /\ \A c \in CallsOf(st[p], "update")
                          \cup CallsOf(st[p], "delete") :
                  \E n \in 1..Len(Index0(st[p])) :
                      Index0(st[p])[n].id = st[p].calls[c].id
            /\ \A d \in EventDates : \A m \in ListedOn(st[p], d) :
                  m # SetMax(ListedOn(st[p], d)) =>
                      \A c \in CallsOf(st[p], "update")
                                  \cup CallsOf(st[p], "delete") :
                          st[p].calls[c].id # st[p].existing_events[m].id

\* A live pass has returned after listing two managed events on the date of
\* an active run, the one with the larger id first, and updating the later
C21_Witness ==
    \E p \in Passes : \E d \in EventDates :
        /\ st[p].pc = "done" /\ Live(st[p])
        /\ Cardinality(ListedOn(st[p], d)) = 2
        /\ \E m \in ListedOn(st[p], d) :
              /\ m # SetMax(ListedOn(st[p], d))
              /\ st[p].existing_events[m].id
                    > st[p].existing_events[SetMax(ListedOn(st[p], d))].id
        /\ \E c \in Succeeded(st[p], "update") :
              st[p].calls[c].id
                  = st[p].existing_events[SetMax(ListedOn(st[p], d))].id

\* The entry of errors a failed call leaves (lines 327, 355, 372, 385, 396)
ErrorOf(c) ==
    [msg |-> IF c.op = "list" THEN "Failed to list events"
             ELSE IF c.op = "create" THEN "Failed to create event for"
             ELSE IF c.op = "update" THEN "Failed to update event for"
             ELSE IF c.part = "run" THEN "Failed to delete event for"
             ELSE "Failed to delete orphan event for",
     date |-> c.date]

CallFailed(c) == ~c.ok

\* The entries the failed calls of a pass leave, in the order of the calls
ErrorsOfCalls(s) ==
    LET failed == SelectSeq(s.calls, CallFailed)
    IN [n \in 1..Len(failed) |-> ErrorOf(failed[n])]

\* C22 (one error per failed operation): the errors of a pass are the
\* entries of its failed gateway calls (list, create, update, delete), one
\* each, in the order the calls failed; in a dry run errors is empty or is
\* the single list-failure entry.
C22_OneErrorPerFailure ==
    \A p \in Passes :
        /\ st[p].result.errors = ErrorsOfCalls(st[p])
        /\ Len(st[p].result.errors) = Cardinality(Failed(st[p]))
        /\ st[p].dry_run =>
              st[p].result.errors
                  \in {<<>>, <<[msg |-> "Failed to list events", date |-> 0]>>}

\* A live pass has returned after two of its writes failed, on different
\* dates, and one succeeded
C22_Witness ==
    \E p \in Passes :
        /\ st[p].pc = "done" /\ Live(st[p])
        /\ Len(st[p].result.errors) = 2
        /\ st[p].result.errors[1].date # st[p].result.errors[2].date
        /\ \E c \in Writes(st[p]) : st[p].calls[c].ok

\* C23 (one terminal outcome per date): when a pass whose list call
\* returned has returned, created + updated + deleted + skipped + the number
\* of errors = the number of runs + the number of indexed managed events
\* whose date has no run.
C23_OneOutcomePerDate ==
    \A p \in Passes :
        (st[p].pc = "done" /\ ListOk(st[p])) =>
            st[p].result.created + st[p].result.updated
                + st[p].result.deleted + st[p].result.skipped
                + Len(st[p].result.errors)
              = Len(runs) + Cardinality(Orphans0(st[p]))

\* C27 (at most one write per event per pass): no event id is the target of
\* more than one update or delete call of a pass, whether the first call
\* returned or raised.
C27_OneWritePerEvent ==
    \A p \in Passes : \A a, b \in CallsOf(st[p], "update")
                                      \cup CallsOf(st[p], "delete") :
        st[p].calls[a].id = st[p].calls[b].id => a = b

\* A start_time that names a clock time: two integers, hour and minute in
\* range
IsClock(t) ==
    /\ Len(t) = 2 /\ IsIntPart(t[1]) /\ IsIntPart(t[2])
    /\ t[1] \in 0..23 /\ t[2] \in 0..59

\* C24 (the desired-event builder is total): for every run the pass builds
\* an event for, build_calendar_event does not raise, and when start_time
\* is not a clock time the start is 19:00.
C24_BuilderTotal ==
    \A p \in Passes :
        (InRunLoop(st[p]) /\ IsActive(Run(st[p]))) =>
            /\ ~BuildRaises(Run(st[p]))
            /\ ~IsClock(Run(st[p]).start_time)
                  => start_dt(Run(st[p])) = <<19, 0>>

\* The ids of the events a pass has created or rewritten
WrittenBy(s) ==
    {s.calls[c].id : c \in Succeeded(s, "create") \cup Succeeded(s, "update")}

\* C25 (built events are owned): the description built for a run begins
\* with the ownership marker; every event on the calendar that a pass has
\* created or rewritten is a managed event with a readable start; and the
\* next pass lists it, keeps it as managed and has an index entry for its
\* date.
C25_BuiltEventsOwned ==
    /\ \A k \in 1..Len(runs) :
          build_event_description(runs[k])[1] = description_marker
    /\ \A p \in Passes : \A e \in calendar :
          e.id \in WrittenBy(st[p]) => is_managed_event(e) /\ e.timed
    /\ ListOk(st[2]) =>
          \A e \in st[2].calendar0 :
              e.id \in WrittenBy(st[1]) =>
                  /\ \E m \in 1..Len(st[2].existing_events) :
                        st[2].existing_events[m] = e
                  /\ \E m \in 1..Len(ManagedEvents(st[2].existing_events)) :
                        ManagedEvents(st[2].existing_events)[m] = e
                  /\ KeyPos(Index0(st[2]), e.date) # 0

\* The second pass has returned after updating the event the first pass
\* created
C25_Witness ==
    /\ st[2].pc = "done"
    /\ \E a \in Succeeded(st[1], "create") :
         \E b \in Succeeded(st[2], "update") :
            st[1].calls[a].id = st[2].calls[b].id

\* C26 (a failed update still claims its date): after the update call for
\* an active run has failed, the date is not in the index, no orphan delete
\* is issued for the event, and the event is on the calendar as it was
\* when the pass began.
C26_FailedUpdateClaims ==
    \A p \in Passes : \A c \in CallsOf(st[p], "update") :
        ~st[p].calls[c].ok =>
            /\ KeyPos(st[p].events_by_date, st[p].calls[c].date) = 0
            /\ \A x \in DeletesOf(st[p], st[p].calls[c].id) :
                  st[p].calls[x].part # "orphan"
            /\ \E e \in calendar :
                  e.id = st[p].calls[c].id /\ e \in st[p].calendar0

\* A live pass has returned after its update of the event of an active run
\* failed
C26_Witness ==
    \E p \in Passes : \E c \in CallsOf(st[p], "update") :
        /\ st[p].pc = "done"
        /\ ~st[p].calls[c].ok
        /\ st[p].result.updated = 0
        /\ Len(st[p].result.errors) = 1

\* The managed events with a readable start that cal holds on date d
ManagedOn(cal, d) == {e \in ManagedOf(cal) : e.timed /\ e.date = d}

\* Place of the event id in the list result of a pass (0: not listed)
ListPos(s, id) ==
    IF \E m \in 1..Len(s.existing_events) : s.existing_events[m].id = id
    THEN CHOOSE m \in 1..Len(s.existing_events) :
             s.existing_events[m].id = id
    ELSE 0

\* Two passes were given the events they both list in the same order
StableOrder(s, t) ==
    \A x, y \in EventIds :
        (ListPos(s, x) # 0 /\ ListPos(s, y) # 0
            /\ ListPos(t, x) # 0 /\ ListPos(t, y) # 0)
          => (ListPos(s, x) < ListPos(s, y) <=> ListPos(t, x) < ListPos(t, y))

\* The update calls of a pass for date d that returned
UpdatedOn(s, d) == {c \in Succeeded(s, "update") : s.calls[c].date = d}

\* C28 (duplicates on an active date are never repaired): when the date d
\* of an active run held two or more managed events and two passes over the
\* schedule have returned, no call of either having failed and the list
\* order being the same, the date held two or more managed events after
\* the first pass and holds as many after the second, every one of the
\* events first there is still on the calendar, and two live passes updated
\* one and the same event.
C28_DuplicatesStay ==
    \A k \in ActiveRuns :
        (/\ Cardinality(ManagedOn(st[1].calendar0, runs[k].date)) >= 2
         /\ st[1].pc = "done" /\ NoFailure(st[1])
         /\ st[2].pc = "done" /\ NoFailure(st[2])
         /\ StableOrder(st[1], st[2]))
            => /\ Cardinality(ManagedOn(st[2].calendar0, runs[k].date)) >= 2
               /\ Cardinality(ManagedOn(calendar, runs[k].date)) >= 2
               /\ \A e \in ManagedOn(st[1].calendar0, runs[k].date) :
                     \E f \in ManagedOn(calendar, runs[k].date) : f.id = e.id
               /\ (Live(st[1]) /\ Live(st[2])) =>
                     /\ Cardinality(UpdatedOn(st[1], runs[k].date)) = 1
                     /\ {st[1].calls[c].id : c \in UpdatedOn(st[1], runs[k].date)}
                          = {st[2].calls[c].id :
                                c \in UpdatedOn(st[2], runs[k].date)}

\* Two live passes have returned, no call having failed, over a date with
\* an active run and two managed events, and both updated the event with
\* the smaller id
C28_Witness ==
    \E k \in ActiveRuns :
        /\ Cardinality(ManagedOn(st[1].calendar0, runs[k].date)) = 2
        /\ st[1].pc = "done" /\ NoFailure(st[1]) /\ Live(st[1])
        /\ st[2].pc = "done" /\ NoFailure(st[2]) /\ Live(st[2])
        /\ StableOrder(st[1], st[2])
        /\ \E a \in UpdatedOn(st[1], runs[k].date) :
             \E b \in UpdatedOn(st[2], runs[k].date) :
                /\ st[1].calls[a].id = st[2].calls[b].id
                /\ \E e \in ManagedOn(calendar, runs[k].date) :
                      e.id > st[1].calls[a].id

\* C29, first half: no update or delete call of a pass carries the id of
\* an event that was dated outside the window of the pass when it began.
C29_OutsideUntouched ==
    \A p \in Passes :
        \A c \in CallsOf(st[p], "update") \cup CallsOf(st[p], "delete") :
            \A e \in st[p].calendar0 :
                e.id = st[p].calls[c].id => e.date \in Window(st[p])

\* C29 (events outside the window are untouched): no update or delete is
\* issued for an event dated outside [min(date) - 1, max(date) + 1], and
\* when a live pass in which no gateway call failed has ended, a managed
\* event with a readable start on min(date) - 1 or max(date) + 1, where no
\* run is, has been deleted by a delete call of the orphan loop.
C29_WindowFrame ==
    /\ C29_OutsideUntouched
    /\ \A p \in Passes :
          (/\ Finished(st[p]) /\ Live(st[p]) /\ ListOk(st[p])
           /\ NoFailure(st[p])) =>
              \A d \in {st[p].start_date, st[p].end_date} :
                  \A e \in ManagedOn(st[p].calendar0, d) :
                      ~HasRun(d) =>
                          /\ e \notin calendar
                          /\ \E c \in DeletesOf(st[p], e.id) :
                                st[p].calls[c].part = "orphan"

\* C30 (termination): a pass eventually returns, and all along it has
\* issued at most one list call and at most (number of runs + number of
\* indexed managed events) write calls.
C30_Termination ==
    /\ <>(st[1].pc = "done")
    /\ [](/\ Cardinality(CallsOf(st[1], "list")) <= 1
          /\ Cardinality(Writes(st[1]))
                <= Len(runs) + Len(Index0(st[1])))

====
